---- MODULE Spec2Model ----
(***************************************************************************)
(* Model of src/handler.py: the RunPod handler that validates a job,      *)
(* forwards it to the local SGLang server with one POST and returns an    *)
(* APIOutput envelope.                                                    *)
(*                                                                         *)
(* JSON values are records [t, s, o]: t is the JSON type, s the text of a *)
(* scalar as a sequence of tokens (a Python str is the sequence of its    *)
(* tokens, so concatenation is \o and "starts with" is a real prefix      *)
(* test), o the key/value map of an object.                               *)
(***************************************************************************)
EXTENDS Integers, Sequences, FiniteSets, TLC

VARIABLES
    pc,                \* position of the handler: Start, Validating, Invoking, Completing, Done, Raised
    job,               \* the job the host passed to handler (<<>> between invocations)
    request_id,        \* local of handler, line 52
    start_time,        \* local of handler, line 53 (a clock reading)
    model_name,        \* local of handler, line 54
    validated_input,   \* <<>> or <<APIInput>>, line 58
    payload,           \* <<>> or <<the body of the POST>>, lines 78-84
    caught,            \* <<>> or <<e>>: the exception bound by an except clause
    downstream,        \* <<>> or <<what requests.post came back with>>, line 88
    generated_text,    \* <<>> or <<value>>, line 93
    envelope,          \* <<>> or <<the dict handler returns>>
    raised,            \* <<>> or <<type>>: the exception that left handler
    posts,             \* number of requests.post calls of this invocation
    envelopes,         \* number of APIOutput objects built by this invocation
    clock,             \* the wall clock time.time() reads, in ticks
    environ,           \* os.environ restricted to MODEL_NAME
    returnedModelNames,\* model_name of every envelope handed to the host so far
    jsonErrorIsRequestException \* the installed requests: is its JSONDecodeError a RequestException

vars == <<pc, job, request_id, start_time, model_name, validated_input, payload,
          downstream, caught, generated_text, envelope, raised, posts, envelopes, clock,
          environ, returnedModelNames, jsonErrorIsRequestException>>

\* ---------------------------------------------------------------- bounds
\* Largest clock reading, in ticks of half a millisecond.
MaxClock == 2

\* ------------------------------------------------------------ JSON values
EmptyMap == [k \in {} |-> 0]

JStr(s) == [t |-> "str", s |-> s, o |-> EmptyMap]
JNum(n) == [t |-> "num", s |-> <<n>>, o |-> EmptyMap]
JBool(b) == [t |-> "bool", s |-> <<IF b THEN "true" ELSE "false">>, o |-> EmptyMap]
JNull == [t |-> "null", s |-> <<>>, o |-> EmptyMap]
JList == [t |-> "list", s |-> <<"[1, 2]">>, o |-> EmptyMap]
JObj(f) == [t |-> "obj", s |-> <<>>, o |-> f]
\* A response body that is not JSON at all (HTML, empty body).
NotJson == [t |-> "notjson", s |-> <<"<html>">>, o |-> EmptyMap]

\* Python str prefix test on token sequences.
StartsWith(s, prefix) ==
    /\ Len(s) >= Len(prefix)
    /\ SubSeq(s, 1, Len(prefix)) = prefix

\* dict.get(key, default) and `key in dict`.
Has(d, key) == key \in DOMAIN d
Get(d, key, default) == IF Has(d, key) THEN d[key] ELSE default

\* ------------------------------------------------------------- the inputs
Prompts == {JStr(<<"Say hi">>), JNum("5"), JNull}

SamplingMaps ==
    { EmptyMap,
      [temperature |-> JNum("0.7")],
      [stream |-> JBool(TRUE), temperature |-> JNum("0.7")],
      [stream |-> JStr(<<"yes">>)] }

SamplingValues == {JObj(m) : m \in SamplingMaps} \cup {JList}

InputMaps ==
    {EmptyMap}
    \cup {[prompt |-> p] : p \in Prompts}
    \cup {[sampling_params |-> sp] : sp \in SamplingValues}
    \cup {[prompt |-> p, sampling_params |-> sp] : p \in Prompts, sp \in SamplingValues}

Jobs ==
    {JObj([input |-> JObj(m)]) : m \in InputMaps}
    \cup {JObj(EmptyMap), JObj([input |-> JStr(<<"Say hi">>)])}

UUIDs == {"uuid-a", "uuid-b"}

ModelNames == {"llama"}
Environs == {EmptyMap} \cup {[MODEL_NAME |-> m] : m \in ModelNames}

ClockValues == 0..MaxClock

Statuses == {200, 300, 404, 500}
Bodies ==
    { NotJson, JList,
      JObj(EmptyMap),
      JObj([text |-> JStr(<<"Hi!">>)]),
      JObj([text |-> JNum("7")]) }
\* What requests.post can come back with: a transport failure or a response.
Outcomes ==
    {[kind |-> "transport", status |-> 0, body |-> NotJson]}
    \cup {[kind |-> "response", status |-> st, body |-> b] : st \in Statuses, b \in Bodies}

\* ------------------------------------------------------ pure computations
\* Python int(x) of the quotient a / b: truncation toward zero.
TruncDiv(a, b) == IF a >= 0 THEN a \div b ELSE -((-a) \div b)

\* The factor of int((end_time - start_time) * 1000).
MsPerSecond == 1000
\* The clock ticks twice per millisecond, so a reading of c ticks is
\* c / TicksPerSecond seconds.
TicksPerSecond == 2 * MsPerSecond

\* int((end_time - start_time) * 1000) for two readings given in ticks.
ExecutionTimeMs(end_time, start) ==
    TruncDiv((end_time - start) * MsPerSecond, TicksPerSecond)

\* os.environ.get(key, default)
EnvironGet(env, key, default) == Get(env, key, default)

\* ValidationErrors with a str field that coerces numbers to text.
ValidationErrorsCoercing(obj) ==
    IF obj.t # "obj"
    THEN <<"Input should be a valid dictionary or object to extract fields from">>
    ELSE (IF ~Has(obj.o, "prompt")
          THEN <<"prompt: Field required">>
          ELSE IF obj.o["prompt"].t \notin {"str", "num"}
               THEN <<"prompt: Input should be a valid string">>
               ELSE <<>>)
         \o
         (IF Has(obj.o, "sampling_params") /\ obj.o["sampling_params"].t # "obj"
          THEN <<"sampling_params: Input should be a valid dictionary">>
          ELSE <<>>)

\* The errors pydantic reports for APIInput.parse_obj(obj), in field order:
\* prompt is a required str (no coercion from numbers or null),
\* sampling_params an optional dict.
ValidationErrors(obj) ==
    IF obj.t # "obj"
    THEN <<"Input should be a valid dictionary or object to extract fields from">>
    ELSE (IF ~Has(obj.o, "prompt")
          THEN <<"prompt: Field required">>
          ELSE IF obj.o["prompt"].t # "str"
               THEN <<"prompt: Input should be a valid string">>
               ELSE <<>>)
         \o
         (IF Has(obj.o, "sampling_params") /\ obj.o["sampling_params"].t # "obj"
          THEN <<"sampling_params: Input should be a valid dictionary">>
          ELSE <<>>)

\* The APIInput that parse_obj returns for an obj without validation errors.
ParseObj(obj) ==
    [prompt |-> obj.o["prompt"].s,
     sampling_params |-> IF Has(obj.o, "sampling_params")
                         THEN obj.o["sampling_params"].o
                         ELSE EmptyMap]

\* The try block of the input validation: APIInput.parse_obj(job['input']).
\* ok, or the exception the except clause binds.
TryValidate(j) ==
    IF ~Has(j.o, "input")
    THEN [ok |-> FALSE, e |-> [type |-> "KeyError", detail |-> <<"'input'">>]]
    ELSE IF ValidationErrors(j.o["input"]) # <<>>
         THEN [ok |-> FALSE,
               e |-> [type |-> "ValidationError",
                      detail |-> ValidationErrors(j.o["input"])]]
         ELSE [ok |-> TRUE, e |-> [type |-> "", detail |-> <<>>]]

\* Merge with the override written first: {**b, **a}.
MergeFirstWins(a, b) ==
    [k \in DOMAIN a \cup DOMAIN b |-> IF k \in DOMAIN a THEN a[k] ELSE b[k]]

\* {**a, **b}: the keys of both, b's value where both have the key.
Merge(a, b) ==
    [k \in DOMAIN a \cup DOMAIN b |-> IF k \in DOMAIN b THEN b[k] ELSE a[k]]

\* The body of the POST.
BuildPayload(v) ==
    [text |-> v.prompt,
     sampling_params |-> Merge(v.sampling_params, [stream |-> JBool(FALSE)])]

\* raise_for_status replaced by a test for server errors only.
RaisesForStatusServerOnly(status) == 500 <= status /\ status < 600

\* response.raise_for_status() raises HTTPError for 4xx and 5xx.
RaisesForStatus(status) == 400 <= status /\ status < 600

\* The try block of the inference call, for one outcome of the POST:
\*   kind "text":   generated_text is bound,
\*   kind "caught": a RequestException reaches the except clause,
\*   kind "raised": any other exception leaves handler.
TryPost(outcome, jsonErrCaught) ==
    IF outcome.kind = "transport"
    THEN [kind |-> "caught", type |-> "ConnectionError",
          detail |-> <<"Connection refused">>, text |-> JNull]
    ELSE IF RaisesForStatus(outcome.status)
    THEN [kind |-> "caught", type |-> "HTTPError",
          detail |-> <<ToString(outcome.status), " Error for url">>, text |-> JNull]
    ELSE IF outcome.body.t = "notjson"
    THEN [kind |-> IF jsonErrCaught THEN "caught" ELSE "raised",
          type |-> "JSONDecodeError",
          detail |-> <<"Expecting value: line 1 column 1 (char 0)">>, text |-> JNull]
    ELSE IF outcome.body.t # "obj"
    THEN [kind |-> "raised", type |-> "AttributeError",
          detail |-> <<"object has no attribute 'get'">>, text |-> JNull]
    ELSE [kind |-> "text", type |-> "", detail |-> <<>>,
          text |-> Get(outcome.body.o, "text", JStr(<<>>))]

\* APIOutput(...).model_dump(): <<the dict>>, or <<>> when pydantic rejects
\* the arguments (text_output must be a str).
APIOutput(rid, mname, ms, status, text_output, error_message) ==
    IF text_output.t = "str"
    THEN <<[request_id |-> rid,
            model_name |-> mname,
            execution_time_ms |-> ms,
            status |-> status,
            text_output |-> text_output.s,
            error_message |-> error_message]>>
    ELSE <<>>

\* The three payloads handler builds.
ValidationErrorPayload(rid, mname, ms, e) ==
    APIOutput(rid, mname, ms, "error", JStr(<<>>),
              JStr(<<"Input validation failed:", " ">> \o e.detail))

RequestErrorPayload(rid, mname, ms, e) ==
    APIOutput(rid, mname, ms, "error", JStr(<<>>),
              JStr(<<"Request to", " SGLang server failed:", " ">> \o e.detail))

\* SuccessPayload with error_message="" instead of the default None.
SuccessPayloadBlankError(rid, mname, ms, text) ==
    APIOutput(rid, mname, ms, "success", text, JStr(<<>>))

SuccessPayload(rid, mname, ms, text) ==
    APIOutput(rid, mname, ms, "success", text, JNull)

\* ------------------------------------------------------------------ Init
Init ==
    /\ pc = "Start"
    /\ job = <<>>
    /\ request_id = ""
    /\ start_time = 0
    /\ model_name = ""
    /\ validated_input = <<>>
    /\ payload = <<>>
    /\ caught = <<>>
    /\ downstream = <<>>
    /\ generated_text = <<>>
    /\ envelope = <<>>
    /\ raised = <<>>
    /\ posts = 0
    /\ envelopes = 0
    /\ clock \in ClockValues
    /\ environ \in Environs
    /\ returnedModelNames = {}
    /\ jsonErrorIsRequestException \in BOOLEAN

world == <<clock, environ, returnedModelNames, jsonErrorIsRequestException>>

\* --------------------------------------------------------------- handler
\* The host calls handler(job): request_id, start_time and model_name.
HandlerStart(j, uuid) ==
    /\ pc = "Start"
    /\ pc' = "Validating"
    /\ job' = <<j>>
    /\ request_id' = uuid
    /\ start_time' = clock
    /\ model_name' = EnvironGet(environ, "MODEL_NAME", "unknown")
    /\ UNCHANGED <<downstream, validated_input, payload, caught, generated_text, envelope,
                   raised, posts, envelopes, world>>

\* Validation succeeds; the payload for the POST is prepared.
Validate ==
    /\ pc = "Validating"
    /\ TryValidate(job[1]).ok
    /\ validated_input' = <<ParseObj(job[1].o["input"])>>
    /\ payload' = <<BuildPayload(ParseObj(job[1].o["input"]))>>
    /\ pc' = "Invoking"
    /\ UNCHANGED <<downstream, job, request_id, start_time, model_name, caught, generated_text,
                   envelope, raised, posts, envelopes, world>>

\* Validation raises; `except Exception as e` binds the exception.
ValidateExcept ==
    /\ pc = "Validating"
    /\ ~TryValidate(job[1]).ok
    /\ caught' = <<TryValidate(job[1]).e>>
    /\ pc' = "Completing"
    /\ UNCHANGED <<downstream, job, request_id, start_time, model_name, validated_input, payload,
                   generated_text, envelope, raised, posts, envelopes, world>>

\* The body of the validation except clause: end_time, the error payload, return.
ValidationErrorReturn ==
    /\ pc = "Completing"
    /\ validated_input = <<>>
    /\ caught # <<>>
    /\ envelope' = ValidationErrorPayload(request_id, model_name,
                       ExecutionTimeMs(clock, start_time), caught[1])
    /\ envelopes' = envelopes + 1
    /\ pc' = "Done"
    /\ UNCHANGED <<downstream, job, request_id, start_time, model_name, validated_input, payload,
                   caught, generated_text, raised, posts, world>>

\* Invoke with one retry of the POST after a RequestException.
InvokeRetrying(outcome) ==
    /\ pc = "Invoking"
    /\ downstream' = <<outcome>>
    /\ LET r == TryPost(outcome, jsonErrorIsRequestException) IN
         /\ posts' = posts + (IF r.kind = "caught" THEN 2 ELSE 1)
         /\ pc' = IF r.kind = "raised" THEN "Raised" ELSE "Completing"
         /\ caught' = IF r.kind = "caught"
                      THEN <<[type |-> r.type, detail |-> r.detail]>> ELSE <<>>
         /\ raised' = IF r.kind = "raised" THEN <<r.type>> ELSE <<>>
         /\ generated_text' = IF r.kind = "text" THEN <<r.text>> ELSE <<>>
    /\ UNCHANGED <<job, request_id, start_time, model_name, validated_input, payload,
                   envelope, envelopes, world>>

\* The try block of the inference call: the POST, raise_for_status, json, get.
Invoke(outcome) ==
    /\ pc = "Invoking"
    /\ posts' = posts + 1
    /\ downstream' = <<outcome>>
    /\ LET r == TryPost(outcome, jsonErrorIsRequestException) IN
         /\ pc' = IF r.kind = "raised" THEN "Raised" ELSE "Completing"
         /\ caught' = IF r.kind = "caught"
                      THEN <<[type |-> r.type, detail |-> r.detail]>> ELSE <<>>
         /\ raised' = IF r.kind = "raised" THEN <<r.type>> ELSE <<>>
         /\ generated_text' = IF r.kind = "text" THEN <<r.text>> ELSE <<>>
    /\ UNCHANGED <<job, request_id, start_time, model_name, validated_input, payload,
                   envelope, envelopes, world>>

\* The body of `except requests.exceptions.RequestException as e`.
RequestErrorReturn ==
    /\ pc = "Completing"
    /\ validated_input # <<>>
    /\ caught # <<>>
    /\ envelope' = RequestErrorPayload(request_id, model_name,
                       ExecutionTimeMs(clock, start_time), caught[1])
    /\ envelopes' = envelopes + 1
    /\ pc' = "Done"
    /\ UNCHANGED <<downstream, job, request_id, start_time, model_name, validated_input, payload,
                   caught, generated_text, raised, posts, world>>

\* After the try block: end_time, execution_time_ms, the success payload, return.
\* pydantic's ValidationError leaves handler when generated_text is not a str.
SuccessReturn ==
    /\ pc = "Completing"
    /\ generated_text # <<>>
    /\ LET p == SuccessPayload(request_id, model_name,
                    ExecutionTimeMs(clock, start_time), generated_text[1]) IN
         /\ envelope' = p
         /\ envelopes' = IF p = <<>> THEN envelopes ELSE envelopes + 1
         /\ pc' = IF p = <<>> THEN "Raised" ELSE "Done"
         /\ raised' = IF p = <<>> THEN <<"ValidationError">> ELSE <<>>
    /\ UNCHANGED <<downstream, job, request_id, start_time, model_name, validated_input, payload,
                   caught, generated_text, posts, world>>

\* ------------------------------------------------------------------ host
ResetLocals ==
    /\ pc' = "Start"
    /\ job' = <<>>
    /\ request_id' = ""
    /\ start_time' = 0
    /\ model_name' = ""
    /\ validated_input' = <<>>
    /\ payload' = <<>>
    /\ caught' = <<>>
    /\ downstream' = <<>>
    /\ generated_text' = <<>>
    /\ envelope' = <<>>
    /\ raised' = <<>>
    /\ posts' = 0
    /\ envelopes' = 0

\* The host takes the returned envelope; the worker waits for the next job.
HostTakesEnvelope ==
    /\ pc = "Done"
    /\ returnedModelNames' = returnedModelNames \cup {envelope[1].model_name}
    /\ ResetLocals
    /\ UNCHANGED <<clock, environ, jsonErrorIsRequestException>>

\* The host takes the exception that left handler.
HostTakesException ==
    /\ pc = "Raised"
    /\ ResetLocals
    /\ UNCHANGED world

\* ----------------------------------------------------------- environment
handlerVars == <<pc, job, request_id, start_time, model_name, validated_input, payload,
                 downstream, caught, generated_text, envelope, raised, posts, envelopes>>

\* Time passes.
ClockAdvance ==
    /\ clock < MaxClock
    /\ clock' \in (clock + 1)..MaxClock
    /\ UNCHANGED <<handlerVars, environ, returnedModelNames, jsonErrorIsRequestException>>

\* The wall clock is set back (NTP step, administrator): time.time() is not monotonic.
ClockStepBack ==
    /\ clock > 0
    /\ clock' \in 0..(clock - 1)
    /\ UNCHANGED <<handlerVars, environ, returnedModelNames, jsonErrorIsRequestException>>

\* os.environ is changed inside the process.
SetEnviron(env) ==
    /\ env # environ
    /\ environ' = env
    /\ UNCHANGED <<handlerVars, clock, returnedModelNames, jsonErrorIsRequestException>>

Next ==
    \/ \E j \in Jobs, uuid \in UUIDs : HandlerStart(j, uuid)
    \/ Validate
    \/ ValidateExcept
    \/ ValidationErrorReturn
    \/ \E outcome \in Outcomes : Invoke(outcome)
    \/ RequestErrorReturn
    \/ SuccessReturn
    \/ HostTakesEnvelope
    \/ HostTakesException
    \/ ClockAdvance
    \/ ClockStepBack
    \/ \E env \in Environs : SetEnviron(env)

Spec == Init /\ [][Next]_vars

\* ================================================================ claims
Finished == pc \in {"Done", "Raised"}
ValidationSucceeded == validated_input # <<>>

EnvelopeFields ==
    {"request_id", "model_name", "execution_time_ms", "status", "text_output",
     "error_message"}

\* The envelope is an error envelope whose message starts with prefix.
IsErrorEnvelope(e, prefix) ==
    /\ e.status = "error"
    /\ e.text_output = <<>>
    /\ e.error_message.t = "str"
    /\ StartsWith(e.error_message.s, prefix)

\* The job has no text prompt: no input, an input that is no mapping, an input
\* without the key prompt, or a prompt that is not a string.
LacksTextPrompt(j) ==
    ~(/\ Has(j.o, "input")
      /\ j.o["input"].t = "obj"
      /\ Has(j.o["input"].o, "prompt")
      /\ j.o["input"].o["prompt"].t = "str")

\* The sampling_params mapping the caller supplied (empty when the key is absent).
CallerSamplingParams(j) ==
    IF Has(j.o["input"].o, "sampling_params")
    THEN j.o["input"].o["sampling_params"].o
    ELSE EmptyMap

\* C1: handler never lets an exception reach the host: an invocation never ends
\* in Raised, and when it ends it has returned an envelope with the six fields.
C1_NeverPropagates ==
    /\ pc # "Raised"
    /\ pc = "Done" => (envelope # <<>> /\ DOMAIN envelope[1] = EnvelopeFields)

\* C2: every envelope satisfies the status invariant: success has a null
\* error_message; error has an empty text_output and a non-null error_message.
C2_StatusInvariant ==
    envelope # <<>> =>
        /\ envelope[1].status \in {"success", "error"}
        /\ envelope[1].status = "success" => envelope[1].error_message = JNull
        /\ envelope[1].status = "error" =>
               /\ envelope[1].text_output = <<>>
               /\ envelope[1].error_message # JNull
               /\ envelope[1].error_message.t = "str"

\* A success envelope with generated text has been returned.
C2_Witness ==
    /\ pc = "Done"
    /\ envelope[1].status = "success"
    /\ envelope[1].text_output = <<"Hi!">>

\* C3: once validation has run on a job that lacks a text prompt, the handler
\* is on the validation-failure path (no validated input, no POST, the
\* exception bound) and the envelope it returns is an error envelope with
\* text_output "" and a message starting with "Input validation failed:".
C3_MissingPromptIsValidationError ==
    (pc \notin {"Start", "Validating"} /\ LacksTextPrompt(job[1])) =>
        /\ pc \in {"Completing", "Done"}
        /\ validated_input = <<>>
        /\ posts = 0
        /\ caught # <<>>
        /\ pc = "Done" =>
               /\ envelope # <<>>
               /\ IsErrorEnvelope(envelope[1], <<"Input validation failed:">>)

\* The envelope for a job whose prompt is a number has been returned.
C3_Witness ==
    /\ pc = "Done"
    /\ Has(job[1].o, "input")
    /\ job[1].o["input"].t = "obj"
    /\ Has(job[1].o["input"].o, "prompt")
    /\ job[1].o["input"].o["prompt"].t = "num"
    /\ envelope[1].status = "error"

\* C4: in every request body the handler builds, sampling_params.stream is
\* false, every other key the caller supplied is present with its value, and
\* text is the prompt of the job.
C4_StreamForcedFalse ==
    payload # <<>> =>
        /\ Has(payload[1].sampling_params, "stream")
        /\ payload[1].sampling_params["stream"] = JBool(FALSE)
        /\ \A k \in DOMAIN CallerSamplingParams(job[1]) \ {"stream"} :
               /\ Has(payload[1].sampling_params, k)
               /\ payload[1].sampling_params[k] = CallerSamplingParams(job[1])[k]
        /\ payload[1].text = job[1].o["input"].o["prompt"].s

\* A body has been posted for a caller who asked for stream: true and a temperature.
C4_Witness ==
    /\ posts = 1
    /\ payload # <<>>
    /\ Has(CallerSamplingParams(job[1]), "stream")
    /\ CallerSamplingParams(job[1])["stream"] = JBool(TRUE)
    /\ Has(CallerSamplingParams(job[1]), "temperature")

\* C5 as claimed: the envelope handler returns after a transport failure or
\* any non-2xx status is an error envelope with text_output "" whose message
\* starts with "Request to SGLang server failed: ".
C5_AnyNon2xxIsRequestError ==
    (/\ pc = "Done"
     /\ downstream # <<>>
     /\ \/ downstream[1].kind = "transport"
        \/ ~(200 <= downstream[1].status /\ downstream[1].status < 300)) =>
        /\ envelope # <<>>
        /\ IsErrorEnvelope(envelope[1], <<"Request to", " SGLang server failed:", " ">>)

\* C5 amended: after a transport failure or a 4xx or 5xx status the invocation
\* ends with an error envelope whose message starts with
\* "Request to SGLang server failed: "; while the envelope is pending the
\* RequestException is bound and nothing has been raised.
C5_TransportOr4xx5xxIsRequestError ==
    (/\ downstream # <<>>
     /\ \/ downstream[1].kind = "transport"
        \/ (400 <= downstream[1].status /\ downstream[1].status < 600)) =>
        /\ pc \in {"Completing", "Done"}
        /\ caught # <<>>
        /\ generated_text = <<>>
        /\ pc = "Done" =>
               /\ envelope # <<>>
               /\ IsErrorEnvelope(envelope[1],
                                  <<"Request to", " SGLang server failed:", " ">>)

\* The envelope for a 404 answer has been returned.
C5_Witness ==
    /\ pc = "Done"
    /\ downstream # <<>>
    /\ downstream[1].kind = "response"
    /\ downstream[1].status = 404
    /\ envelope[1].status = "error"

\* C6: after a 2xx response to a validated input the invocation ends with a
\* success envelope, error_message null, text_output the body's text field
\* when present and "" otherwise, whatever the shape of the body.
C6_Any2xxIsSuccess ==
    (/\ Finished
     /\ ValidationSucceeded
     /\ downstream # <<>>
     /\ downstream[1].kind = "response"
     /\ 200 <= downstream[1].status /\ downstream[1].status < 300) =>
        /\ pc = "Done"
        /\ envelope # <<>>
        /\ envelope[1].status = "success"
        /\ envelope[1].error_message = JNull
        /\ envelope[1].text_output =
               (IF downstream[1].body.t = "obj" /\ Has(downstream[1].body.o, "text")
                THEN downstream[1].body.o["text"].s
                ELSE <<>>)

\* C7: all envelopes returned in the process carry the same model_name.
C7_ModelNameConstant ==
    Cardinality(returnedModelNames
                \cup (IF envelope # <<>> THEN {envelope[1].model_name} ELSE {})) <= 1

\* C8: execution_time_ms is non-negative in every envelope.
C8_ExecutionTimeNonNegative ==
    envelope # <<>> => envelope[1].execution_time_ms >= 0

\* C10: the handler is a linear machine without retry. In every state at most
\* one POST has been issued and at most one envelope built; no POST before
\* Invoking; from Completing on exactly one POST when validation succeeded and
\* none when it failed. Every step moves forward; the POST is issued from
\* Invoking, after validation and before any envelope; the envelope
\* construction is the step into Done.
Rank(p) ==
    CASE p = "Start" -> 0
      [] p = "Validating" -> 1
      [] p = "Invoking" -> 2
      [] p = "Completing" -> 3
      [] p \in {"Done", "Raised"} -> 4

C10_Positions ==
    /\ posts <= 1
    /\ envelopes <= 1
    /\ pc \in {"Start", "Validating", "Invoking"} => (posts = 0 /\ envelopes = 0)
    /\ pc \in {"Completing", "Done", "Raised"} =>
           posts = (IF ValidationSucceeded THEN 1 ELSE 0)
    /\ pc = "Completing" => envelopes = 0
    /\ pc = "Done" => envelopes = 1

C10_Step ==
    /\ posts' > posts =>
           (pc = "Invoking" /\ ValidationSucceeded /\ envelopes = 0 /\ envelopes' = 0)
    /\ envelopes' > envelopes => (pc = "Completing" /\ pc' = "Done")
    /\ pc' # pc =>
           \/ Rank(pc') > Rank(pc)
           \/ (Finished /\ pc' = "Start")

C10_LinearNoRetry == [](C10_Positions) /\ [][C10_Step]_vars

\* A validated invocation has ended with its one POST and its one envelope.
C10_Witness ==
    /\ pc = "Done"
    /\ ValidationSucceeded
    /\ posts = 1
    /\ envelopes = 1

====
